---- MODULE Spec2Model ----
(***************************************************************************)
(* A model of three units of FastEstimator:                                *)
(*   - the Dice trace            (fastestimator/trace/metric/dice.py)      *)
(*   - the Onehot numpy op       (fastestimator/op/numpyop/univariate/     *)
(*                                onehot.py)                               *)
(*   - sparse_categorical_crossentropy                                     *)
(*                               (fastestimator/backend/                   *)
(*                                _sparse_categorical_crossentropy.py)     *)
(* Real numbers are exact: a rational is a pair <<n, d>> with d > 0 in     *)
(* lowest terms; floating-point rounding is not modelled.                  *)
(***************************************************************************)
EXTENDS Integers, Sequences, FiniteSets

VARIABLES
    \* Dice trace
    threshold,      \* self.threshold
    output_name,    \* self.outputs[0]
    dice,           \* self.dice, the accumulator
    data,           \* the Data object of the latest callback
    last,           \* the latest call made on the trace
    since,          \* history: scores of the on_batch_end calls since the
                    \* latest on_epoch_begin (since construction if none)
    since_unit,     \* history: for each of them, whether every ground-truth
                    \* value of its sample lay in [0, 1]
    restarted,      \* history: some on_epoch_begin discarded scores
    \* Onehot op
    num_classes,    \* self.num_classes
    label_smoothing,\* self.label_smoothing
    oh_data,        \* the list handed to Onehot.forward
    oh_out,         \* what Onehot.forward returned or raised
    \* sparse_categorical_crossentropy
    ce_in,          \* the arguments of the call
    ce_out          \* what the call returned or raised

diceVars == <<threshold, output_name, dice, data, last, since, since_unit,
             restarted>>
onehotVars == <<num_classes, label_smoothing, oh_data, oh_out>>
ceVars == <<ce_in, ce_out>>

vars == <<diceVars, onehotVars, ceVars>>

(***************************************************************************)
(* Bounds of the model.                                                    *)
(***************************************************************************)
\* samples in one batch handed to Dice.on_batch_end
MaxBatch == 2
\* on_batch_end is not taken when it would make the accumulator longer
MaxAcc == 2
\* elements of one sample's mask in SpecMask
NumPix == 2
\* largest num_classes an Onehot op is constructed with
MaxClasses == 3
\* longest list handed to Onehot.forward
MaxList == 2
\* largest batch handed to sparse_categorical_crossentropy
MaxCEBatch == 2

(***************************************************************************)
(* Exact rationals.                                                        *)
(***************************************************************************)
Abs(x) == IF x < 0 THEN -x ELSE x

RECURSIVE GCD(_, _)
GCD(a, b) == IF b = 0 THEN a ELSE GCD(b, a % b)

Norm(r) ==
    LET g == GCD(Abs(r[1]), Abs(r[2]))
        s == IF r[2] < 0 THEN -1 ELSE 1
    IN  <<s * (r[1] \div g), s * (r[2] \div g)>>

RAdd(a, b) == Norm(<<a[1] * b[2] + b[1] * a[2], a[2] * b[2]>>)
RSub(a, b) == Norm(<<a[1] * b[2] - b[1] * a[2], a[2] * b[2]>>)
RMul(a, b) == Norm(<<a[1] * b[1], a[2] * b[2]>>)
RDivInt(a, k) == Norm(<<a[1], a[2] * k>>)
RLt(a, b) == a[1] * b[2] < b[1] * a[2]
RLe(a, b) == a[1] * b[2] <= b[1] * a[2]
R0 == <<0, 1>>
R1 == <<1, 1>>

RECURSIVE RSum(_)
RSum(s) == IF s = <<>> THEN R0 ELSE RAdd(s[1], RSum(Tail(s)))

(***************************************************************************)
(* Numbers that depend on the smoothing term of the Dice score.  The trace *)
(* sets smooth = 1e-8; a number is kept as a quotient of two polynomials   *)
(* in smooth with integer coefficients, <<c0, c1, ...>> standing for       *)
(* c0 + c1*smooth + c2*smooth^2 + ...  Every coefficient of the model is   *)
(* far below 1e8 in absolute value, so the sign of a polynomial at         *)
(* smooth = 1e-8 is the sign of its lowest-order non-zero coefficient.     *)
(***************************************************************************)
PCoef(p, i) == IF i <= Len(p) THEN p[i] ELSE 0
PMax(a, b) == IF a < b THEN b ELSE a
PAdd(p, q) == [i \in 1..PMax(Len(p), Len(q)) |-> PCoef(p, i) + PCoef(q, i)]
PScale(k, p) == [i \in 1..Len(p) |-> k * p[i]]
PSub(p, q) == PAdd(p, PScale(-1, q))

RECURSIVE PConv(_, _, _, _)
PConv(p, q, k, i) ==
    IF i > k THEN 0
    ELSE PCoef(p, i) * PCoef(q, k - i + 1) + PConv(p, q, k, i + 1)

PMul(p, q) == [k \in 1..(Len(p) + Len(q) - 1) |-> PConv(p, q, k, 1)]

RECURSIVE PSign(_)
PSign(p) ==
    IF p = <<>> THEN 0
    ELSE IF p[1] > 0 THEN 1
    ELSE IF p[1] < 0 THEN -1
    ELSE PSign(Tail(p))

\* a number: [num |-> polynomial, den |-> polynomial of positive value]
EOfRat(r) == [num |-> <<r[1]>>, den |-> <<r[2]>>]
EAdd(a, b) == [num |-> PAdd(PMul(a.num, b.den), PMul(b.num, a.den)),
               den |-> PMul(a.den, b.den)]
EDivInt(a, k) == [num |-> a.num, den |-> PScale(k, a.den)]
ECmp(a, b) == PSign(PSub(PMul(a.num, b.den), PMul(b.num, a.den)))
EEq(a, b) == ECmp(a, b) = 0
ELe(a, b) == ECmp(a, b) <= 0

RECURSIVE ESum(_)
ESum(s) == IF s = <<>> THEN EOfRat(R0) ELSE EAdd(s[1], ESum(Tail(s)))

\* self.smooth = 1e-8, the polynomial "smooth"
smooth == [num |-> <<0, 1>>, den |-> <<1>>]

(***************************************************************************)
(* Dice trace: inputs.                                                     *)
(***************************************************************************)
\* element values of a mask: 0, 1/2, 1, 2
PixVals == {<<0, 1>>, <<1, 2>>, <<1, 1>>, <<2, 1>>}
\* element values of the one-element masks of SpecDice: 0, 1, 2
UnitPixVals == {<<0, 1>>, <<1, 1>>, <<2, 1>>}
\* one sample: its ground-truth mask and its prediction, of one shape;
\* SpecDice feeds one-element masks, SpecMask masks of NumPix elements
UnitSamples == [y_true : [1..1 -> UnitPixVals], y_pred : [1..1 -> UnitPixVals]]
MaskSamples == [y_true : [1..NumPix -> PixVals], y_pred : [1..NumPix -> PixVals]]
\* threshold values a Dice trace is constructed with: 0, 1/2 (default), 1
Thresholds == {<<0, 1>>, <<1, 2>>, <<1, 1>>}
OutputNames == {"Dice", "dice_b"}

NaN == [num |-> <<0>>, den |-> <<0>>]
NoLog == <<>>

\* np.where(y_pred > self.threshold, 1.0, 0.0).astype(y_pred.dtype)
BinarizeRaw(y_pred, thr) == y_pred
BinarizeSwapped(y_pred, thr) ==
    [i \in 1..Len(y_pred) |-> IF RLt(thr, y_pred[i]) THEN R0 ELSE R1]
Binarize(y_pred, thr) ==
    [i \in 1..Len(y_pred) |-> IF RLt(thr, y_pred[i]) THEN R1 ELSE R0]

RECURSIVE DotSum(_, _)
DotSum(a, b) ==
    IF a = <<>> THEN R0
    ELSE RAdd(RMul(a[1], b[1]), DotSum(Tail(a), Tail(b)))

\* dice_score of one sample (channel_average = False):
\*   (2 * sum(y_pred * y_true) + epsilon) / (sum(y_pred) + sum(y_true) + epsilon)
\* with 2 * sum(y_pred * y_true) = n1/n2 and sum(y_pred) + sum(y_true) = d1/d2
\* this is ((n1 + n2*epsilon) * d2) / ((d1 + d2*epsilon) * n2)
SampleDice(y_pred, y_true, epsilon) ==
    LET n == RMul(<<2, 1>>, DotSum(y_pred, y_true))
        d == RAdd(RSum(y_pred), RSum(y_true))
        two_inter == [num |-> <<n[1]>>, den |-> <<n[2]>>]
        total == [num |-> <<d[1]>>, den |-> <<d[2]>>]
        top == EAdd(two_inter, epsilon)
        bot == EAdd(total, epsilon)
    IN  [num |-> PMul(top.num, bot.den), den |-> PMul(bot.num, top.den)]

\* dice_score(y_pred, y_true, channel_average, epsilon): one score per sample
dice_score(y_pred, y_true, epsilon) ==
    [i \in 1..Len(y_pred) |-> SampleDice(y_pred[i], y_true[i], epsilon)]

\* np.mean of a list: nan (0/0) for the empty list
np_mean(s) == IF s = <<>> THEN NaN ELSE EDivInt(ESum(s), Len(s))

\* Data.write_with_log / Data.write_per_instance_log: store under the key
write(key, value) == [k \in {key} |-> value]

(***************************************************************************)
(* Dice trace: state machine.                                              *)
(***************************************************************************)
OnehotIdle == [exc |-> "not run", value |-> <<>>]
CEIdle == [exc |-> "not run", value |-> <<>>]

\* the other two units do not run in a specification of the Dice trace
OthersIdle ==
    /\ num_classes = 1
    /\ label_smoothing = R0
    /\ oh_data = <<>>
    /\ oh_out = OnehotIdle
    /\ ce_in = [backend |-> "none"]
    /\ ce_out = CEIdle

\* Dice.__init__: self.threshold = threshold, self.dice = []
DiceInit ==
    /\ threshold \in Thresholds
    /\ output_name \in OutputNames
    /\ dice = <<>>
    /\ data = [batch |-> <<>>, log |-> NoLog, per_instance_log |-> NoLog]
    /\ last = "__init__"
    /\ since = <<>>
    /\ since_unit = <<>>
    /\ restarted = FALSE
    /\ OthersIdle

\* Dice.on_epoch_begin: self.dice = []
on_epoch_begin_keep(old) == old
on_epoch_begin_dice(old) == <<>>

on_epoch_begin ==
    /\ dice' = on_epoch_begin_dice(dice)
    /\ data' = [batch |-> <<>>, log |-> NoLog, per_instance_log |-> NoLog]
    /\ last' = "on_epoch_begin"
    /\ since' = <<>>
    /\ since_unit' = <<>>
    /\ restarted' = (restarted \/ dice # <<>>)
    /\ UNCHANGED <<threshold, output_name, onehotVars, ceVars>>

\* the scores on_batch_end computes for a batch: the prediction is binarized,
\* the ground truth is used as it is
BatchScores(batch, thr) ==
    dice_score([i \in 1..Len(batch) |-> Binarize(batch[i].y_pred, thr)],
               [i \in 1..Len(batch) |-> batch[i].y_true],
               smooth)

\* self.dice.extend(list(dice))
extend_replace(old, scores) == scores
extend_front(old, scores) == scores \o old
extend(old, scores) == old \o scores

InUnit(mask) == \A i \in 1..Len(mask) : RLe(R0, mask[i]) /\ RLe(mask[i], R1)

\* Dice.on_batch_end on a batch of 1..most samples drawn from pool
BatchEnd(most, pool) ==
    /\ \E n \in 1..most :
         \E batch \in [1..n -> pool] :
           \E scores \in {BatchScores(batch, threshold)} :
               /\ data' = [batch |-> batch,
                           log |-> NoLog,
                           per_instance_log |-> write(output_name, scores)]
               /\ dice' = extend(dice, scores)
               /\ since' = since \o scores
               /\ since_unit' = since_unit \o
                                  [i \in 1..n |-> InUnit(batch[i].y_true)]
    /\ last' = "on_batch_end"
    /\ UNCHANGED <<threshold, output_name, restarted, onehotVars, ceVars>>

on_batch_end ==
    /\ Len(dice) < MaxAcc
    /\ BatchEnd(IF MaxBatch < MaxAcc - Len(dice) THEN MaxBatch
                ELSE MaxAcc - Len(dice), UnitSamples)

\* on_batch_end on one sample of NumPix elements, on an empty accumulator
on_batch_end_mask ==
    /\ dice = <<>>
    /\ BatchEnd(1, MaskSamples)

\* Dice.on_epoch_end: data.write_with_log(self.outputs[0], np.mean(self.dice))
on_epoch_end_sum(acc) == ESum(acc)
on_epoch_end_value(acc) == np_mean(acc)

on_epoch_end ==
    /\ data' = [batch |-> <<>>,
                log |-> write(output_name, on_epoch_end_value(dice)),
                per_instance_log |-> NoLog]
    /\ last' = "on_epoch_end"
    /\ UNCHANGED <<threshold, output_name, dice, since, since_unit, restarted,
                   onehotVars, ceVars>>

DiceNext == on_epoch_begin \/ on_batch_end \/ on_epoch_end

\* the trace driven with batches of up to MaxBatch one-element samples
SpecDice == DiceInit /\ [][DiceNext]_vars

MaskNext == on_epoch_begin \/ on_batch_end_mask \/ on_epoch_end

\* the trace driven with single samples of NumPix elements, one per epoch
SpecMask == DiceInit /\ [][MaskNext]_vars

(***************************************************************************)
(* Onehot op.                                                              *)
(***************************************************************************)
\* label_smoothing values an op is constructed with: 0, 1/10, 1/2, 1, 3/2
Smoothings == {<<0, 1>>, <<1, 10>>, <<1, 2>>, <<1, 1>>, <<3, 2>>}
\* integer labels, some on either side of [0, num_classes)
Labels == (-(MaxClasses + 1))..(MaxClasses + 1)
\* what np.array(data) can be: an integer scalar, a float scalar, an
\* integer array of two items
Elems ==
    {[dtype |-> "int64", items |-> <<l>>] : l \in Labels}
        \cup {[dtype |-> "float64", items |-> <<1>>],
              [dtype |-> "int64", items |-> <<0, 1>>]}

Raised(e) == [exc |-> e, value |-> <<>>]
Returned(v) == [exc |-> "none", value |-> v]

\* fill_value = self.label_smoothing / self.num_classes
OnehotFillRaw(s, nc) == s
OnehotFill(s, nc) == RDivInt(s, nc)

\* 1.0 - self.label_smoothing + self.label_smoothing / self.num_classes
OnehotHotNoShare(s, nc) == RSub(R1, s)
OnehotHot(s, nc) == RAdd(RSub(R1, s), RDivInt(s, nc))

\* output[class_index] = ...: a negative index counts from the end, an
\* index outside [-num_classes, num_classes) raises IndexError
SetItem(output, class_index, v) ==
    LET n == Len(output)
        pos == IF class_index < 0 THEN class_index + n ELSE class_index
    IN  IF pos < 0 \/ pos >= n
        THEN Raised("IndexError")
        ELSE Returned([i \in 1..n |-> IF i = pos + 1 THEN v ELSE output[i]])

\* Onehot._apply_onehot
_apply_onehot(elem, nc, s) ==
    IF elem.dtype # "int64" THEN Raised("AssertionError")
    ELSE IF Len(elem.items) # 1 THEN Raised("AssertionError")
    ELSE IF ~(elem.items[1] < nc) THEN Raised("AssertionError")
    ELSE SetItem([i \in 1..nc |-> OnehotFill(s, nc)], elem.items[1],
                 OnehotHot(s, nc))

\* Onehot.forward: [self._apply_onehot(elem) for elem in data]; the first
\* element that raises ends the call
RECURSIVE forward(_, _, _)
forward(elems, nc, s) ==
    IF elems = <<>> THEN Returned(<<>>)
    ELSE LET head == _apply_onehot(elems[1], nc, s)
         IN  IF head.exc # "none" THEN head
             ELSE LET rest == forward(Tail(elems), nc, s)
                  IN  IF rest.exc # "none" THEN rest
                      ELSE Returned(<<head.value>> \o rest.value)

DiceIdle ==
    /\ threshold = <<1, 2>>
    /\ output_name = "Dice"
    /\ dice = <<>>
    /\ data = [batch |-> <<>>, log |-> NoLog, per_instance_log |-> NoLog]
    /\ last = "__init__"
    /\ since = <<>>
    /\ since_unit = <<>>
    /\ restarted = FALSE

\* Onehot.__init__, and a list about to be handed to forward
OnehotInit ==
    /\ num_classes \in 1..MaxClasses
    /\ label_smoothing \in Smoothings
    /\ oh_data \in UNION {[1..n -> Elems] : n \in 1..MaxList}
    /\ oh_out = OnehotIdle
    /\ DiceIdle
    /\ ce_in = [backend |-> "none"]
    /\ ce_out = CEIdle

onehot_forward ==
    /\ oh_out = OnehotIdle
    /\ oh_out' = forward(oh_data, num_classes, label_smoothing)
    /\ UNCHANGED <<num_classes, label_smoothing, oh_data, diceVars, ceVars>>

SpecOnehot == OnehotInit /\ [][onehot_forward]_vars

(***************************************************************************)
(* sparse_categorical_crossentropy.                                        *)
(***************************************************************************)
Classes == {0, 1, 2}

\* Rows of y_pred.  The crossentropy primitives of TensorFlow and PyTorch
\* are outside the repository; a row is kept as the loss the primitive
\* returns for each class index (the negative log-likelihood, in
\* hundredths).  The rows are those of the function's documentation:
\* [0.1, 0.8, 0.1], [0.9, 0.05, 0.05], [0.1, 0.2, 0.7].
PredRows ==
    {[c \in Classes |-> IF c = 1 THEN <<22, 100>> ELSE <<230, 100>>],
     [c \in Classes |-> IF c = 0 THEN <<11, 100>> ELSE <<300, 100>>],
     [c \in Classes |-> IF c = 0 THEN <<230, 100>>
                        ELSE IF c = 1 THEN <<161, 100>> ELSE <<36, 100>>]}

\* class_weights mappings: {}, {1: 2.0}, {1: 2.0, 2: 3.0}
WeightMaps ==
    {[c \in {} |-> R1],
     [c \in {1} |-> <<2, 1>>],
     [c \in {1, 2} |-> IF c = 1 THEN <<2, 1>> ELSE <<3, 1>>]}
\* default_value of a tf.lookup.StaticHashTable: 1.0 or 0.0
TableDefaults == {<<1, 1>>, <<0, 1>>}

\* class_weights as the caller passes it: None, a StaticHashTable on the
\* TensorFlow path, a dict on the PyTorch path
WeightArgs(backend) ==
    {[given |-> FALSE]}
        \cup IF backend = "tf"
             THEN {[given |-> TRUE, map |-> m, default_value |-> d] :
                     m \in WeightMaps, d \in TableDefaults}
             ELSE {[given |-> TRUE, map |-> m] : m \in WeightMaps}

Backends == {"tf", "torch", "numpy"}

\* y_true of shape (Batch): a sequence of class indices; of shape
\* (Batch, 1): a sequence of one-element rows
Shaped(labels, shape) ==
    IF shape = "Batch,1" THEN [i \in 1..Len(labels) |-> <<labels[i]>>]
    ELSE labels

\* tf.reshape(y_true, tf.shape(ce)) and y_true.view(-1)
Flat(y_true, shape) ==
    IF shape = "Batch,1" THEN [i \in 1..Len(y_true) |-> y_true[i][1]]
    ELSE y_true

\* tf.losses.sparse_categorical_crossentropy, torch.nn.CrossEntropyLoss and
\* torch.nn.NLLLoss with reduction "none": the loss of the true class.  With
\* from_logits the primitive takes the softmax itself, without it the row is
\* taken as normalized; either way the row here is the resulting loss.
ElementLoss(y_pred, labels, from_logits) ==
    [i \in 1..Len(labels) |-> Norm(y_pred[i][labels[i]])]

\* StaticHashTable.lookup
TableDefaultOne(table, keys) ==
    [i \in 1..Len(keys) |->
        IF keys[i] \in DOMAIN table.map THEN table.map[keys[i]] ELSE R1]
TableLookup(table, keys) ==
    [i \in 1..Len(keys) |->
        IF keys[i] \in DOMAIN table.map THEN table.map[keys[i]]
        ELSE table.default_value]

\* sample_weights = torch.ones_like(y_true, dtype=torch.float)
\* for key in class_weights.keys():
\*     sample_weights[y_true == key] = class_weights[key]
RECURSIVE TorchAssign(_, _, _, _)
TorchAssign(sample_weights, labels, map, keys) ==
    IF keys = {} THEN sample_weights
    ELSE LET key == CHOOSE k \in keys : \A o \in keys : k <= o
         IN  TorchAssign([i \in 1..Len(labels) |->
                              IF labels[i] = key THEN map[key]
                              ELSE sample_weights[i]],
                         labels, map, keys \ {key})

TorchWeights(labels, map) ==
    TorchAssign([i \in 1..Len(labels) |-> R1], labels, map, DOMAIN map)

\* ce * sample_weights
Times(ce, w) == [i \in 1..Len(ce) |-> RMul(ce[i], w[i])]

\* reduce_mean
reduce_mean(ce) == RDivInt(RSum(ce), Len(ce))

\* the element-wise loss before the reduction
WeightedLoss(in) ==
    IF in.backend = "tf"
    THEN LET ce == ElementLoss(in.y_pred, Flat(in.y_true, in.shape),
                               in.from_logits)
         IN  IF in.class_weights.given
             THEN Times(ce, TableLookup(in.class_weights,
                                        Flat(in.y_true, in.shape)))
             ELSE ce
    ELSE LET labels == Flat(in.y_true, in.shape)
             ce == IF in.from_logits
                   THEN ElementLoss(in.y_pred, labels, TRUE)
                   ELSE ElementLoss(in.y_pred, labels, FALSE)
         IN  IF in.class_weights.given
             THEN Times(ce, TorchWeights(labels, in.class_weights.map))
             ELSE ce

sparse_categorical_crossentropy(in) ==
    IF in.backend \notin {"tf", "torch"} THEN Raised("AssertionError")
    ELSE IF in.average_loss THEN Returned(reduce_mean(WeightedLoss(in)))
    ELSE Returned(WeightedLoss(in))

\* the arguments of one call
CEInit ==
    /\ \E backend \in Backends, shape \in {"Batch", "Batch,1"},
          n \in 1..MaxCEBatch :
         \E y_pred \in [1..n -> PredRows], labels \in [1..n -> Classes],
            from_logits \in BOOLEAN, average_loss \in BOOLEAN,
            class_weights \in WeightArgs(backend) :
           ce_in = [backend |-> backend,
                    shape |-> shape,
                    y_pred |-> y_pred,
                    y_true |-> Shaped(labels, shape),
                    from_logits |-> from_logits,
                    average_loss |-> average_loss,
                    class_weights |-> class_weights]
    /\ ce_out = CEIdle
    /\ DiceIdle
    /\ num_classes = 1
    /\ label_smoothing = R0
    /\ oh_data = <<>>
    /\ oh_out = OnehotIdle

ce_call ==
    /\ ce_out = CEIdle
    /\ ce_out' = sparse_categorical_crossentropy(ce_in)
    /\ UNCHANGED <<ce_in, diceVars, onehotVars>>

SpecCE == CEInit /\ [][ce_call]_vars

(***************************************************************************)
(* Properties.                                                             *)
(***************************************************************************)
E1 == EOfRat(R1)
E0 == EOfRat(R0)
EMulInt(a, k) == [num |-> PScale(k, a.num), den |-> a.den]
IsNumber(a) == PSign(a.den) > 0
\* |a - 1| <= smooth
NearOne(a) ==
    /\ ELe(a, EAdd(E1, smooth))
    /\ ELe([num |-> <<1, -1>>, den |-> <<1>>], a)

\* C1: on_epoch_begin leaves the accumulator empty, whatever it held before
\* the call (so a second call in a row leaves the same empty accumulator).
C1_EpochBeginEmpties == last = "on_epoch_begin" => dice = <<>>

\* an on_epoch_begin has returned after discarding accumulated scores
C1_Witness == last = "on_epoch_begin" /\ restarted /\ dice = <<>>

\* C2: an on_batch_end call appends one score per sample of its batch, in
\* sample order, after the scores the accumulator held, which it keeps.
C2_BatchEndAppends ==
    [][last' = "on_batch_end" =>
         /\ Len(dice') = Len(dice) + Len(data'.batch)
         /\ SubSeq(dice', 1, Len(dice)) = dice
         /\ \A i \in 1..Len(data'.batch) :
              /\ Len(dice) + i \in DOMAIN dice'
              /\ dice'[Len(dice) + i]
                   = BatchScores(<<data'.batch[i]>>, threshold)[1]]_vars

\* a batch was appended to a non-empty accumulator
C2_Witness ==
    /\ last = "on_batch_end"
    /\ Len(dice) > Len(data.batch)
    /\ ~EEq(dice[1], dice[Len(dice)])

\* C3: on_epoch_end writes, under outputs[0], the arithmetic mean of the
\* scores in the accumulator (numpy's nan when there is none); with a
\* single score v it writes v.
C3_EpochEndWritesMean ==
    last = "on_epoch_end" =>
        /\ DOMAIN data.log = {output_name}
        /\ IF dice = <<>> THEN data.log[output_name] = NaN
           ELSE /\ IsNumber(data.log[output_name])
                /\ EEq(EMulInt(data.log[output_name], Len(dice)), ESum(dice))
        /\ Len(dice) = 1 => EEq(data.log[output_name], dice[1])

\* the mean of two different scores was written under a non-default name
C3_Witness ==
    /\ last = "on_epoch_end"
    /\ output_name # "Dice"
    /\ Len(dice) >= 2
    /\ ~EEq(dice[1], dice[2])

\* C4: for a label in [0, num_classes) _apply_onehot returns a vector of
\* length num_classes holding 1 - s + s/num_classes at the label's index and
\* s/num_classes everywhere else (1 and 0 when s = 0), and it does not raise.
ValidLabel(elem) ==
    /\ elem.dtype = "int64"
    /\ Len(elem.items) = 1
    /\ 0 <= elem.items[1]
    /\ elem.items[1] < num_classes

C4_OnehotEntries ==
    oh_out # OnehotIdle =>
        /\ (\A i \in 1..Len(oh_data) : ValidLabel(oh_data[i]))
              => oh_out.exc = "none"
        /\ oh_out.exc = "none" =>
             /\ Len(oh_out.value) = Len(oh_data)
             /\ \A i \in 1..Len(oh_data) :
                  ValidLabel(oh_data[i]) =>
                    /\ Len(oh_out.value[i]) = num_classes
                    /\ \A j \in 1..num_classes :
                         LET x == oh_out.value[i][j]
                             share == RMul(x, <<num_classes, 1>>)
                         IN  IF j = oh_data[i].items[1] + 1
                             THEN /\ RAdd(share, RMul(label_smoothing,
                                                      <<num_classes - 1, 1>>))
                                       = <<num_classes, 1>>
                                  /\ label_smoothing = R0 => x = R1
                             ELSE /\ share = label_smoothing
                                  /\ label_smoothing = R0 => x = R0

\* a smoothed encoding of a valid label among several classes was returned
C4_Witness ==
    /\ oh_out # OnehotIdle
    /\ oh_out.exc = "none"
    /\ num_classes >= 2
    /\ label_smoothing = <<1, 10>>
    /\ \E i \in 1..Len(oh_data) :
         ValidLabel(oh_data[i]) /\ oh_data[i].items[1] = num_classes - 1

\* C5: for a valid label and 0 <= s <= 1 the entries of the returned vector
\* sum to 1.
C5_OnehotSumsToOne ==
    (/\ oh_out # OnehotIdle
     /\ oh_out.exc = "none"
     /\ RLe(R0, label_smoothing)
     /\ RLe(label_smoothing, R1)) =>
        \A i \in 1..Len(oh_data) :
            ValidLabel(oh_data[i]) => RSum(oh_out.value[i]) = R1

C5_Witness ==
    /\ oh_out # OnehotIdle
    /\ oh_out.exc = "none"
    /\ num_classes = 3
    /\ label_smoothing = <<1, 2>>
    /\ \E i \in 1..Len(oh_data) : ValidLabel(oh_data[i])

\* C6: an integer label outside [0, num_classes), negative or too large,
\* makes the encoding fail; no vector is returned for it.
OutsideLabel(elem) ==
    /\ elem.dtype = "int64"
    /\ Len(elem.items) = 1
    /\ (elem.items[1] < 0 \/ elem.items[1] >= num_classes)

C6_OutsideLabelRaises ==
    (/\ oh_out # OnehotIdle
     /\ \E i \in 1..Len(oh_data) : OutsideLabel(oh_data[i]))
        => oh_out.exc # "none"

\* C7 as stated: with class_weights the loss of a sample is its unweighted
\* loss times the weight mapped to its true class, times 1.0 when the class
\* has no entry, on the TensorFlow and the PyTorch path alike.
TrueClass(i) == Flat(ce_in.y_true, ce_in.shape)[i]
Unweighted(i) == Norm(ce_in.y_pred[i][TrueClass(i)])
Batch == Len(ce_in.y_true)

WeightedBy(weight(_)) ==
    IF ce_in.average_loss
    THEN RMul(ce_out.value, <<Batch, 1>>)
            = RSum([i \in 1..Batch |-> RMul(Unweighted(i), weight(i))])
    ELSE /\ Len(ce_out.value) = Batch
         /\ \A i \in 1..Batch :
              ce_out.value[i] = RMul(Unweighted(i), weight(i))

WeightOrOne(i) ==
    IF TrueClass(i) \in DOMAIN ce_in.class_weights.map
    THEN ce_in.class_weights.map[TrueClass(i)]
    ELSE R1

WeightOrDefault(i) ==
    IF TrueClass(i) \in DOMAIN ce_in.class_weights.map
    THEN ce_in.class_weights.map[TrueClass(i)]
    ELSE IF ce_in.backend = "tf" THEN ce_in.class_weights.default_value
    ELSE R1

Identical(sample) == sample.y_true = sample.y_pred
AboveOrZero(mask, thr) ==
    \A i \in 1..Len(mask) : mask[i] = R0 \/ RLt(thr, mask[i])
OneOrZero(mask) == \A i \in 1..Len(mask) : mask[i] = R0 \/ mask[i] = R1
Appended(i) == dice[Len(dice) - Len(data.batch) + i]

C8_IdenticalAboveThresholdScoresOne ==
    (last = "on_batch_end" /\ threshold = <<1, 2>>) =>
        \A i \in 1..Len(data.batch) :
            (Identical(data.batch[i])
                /\ AboveOrZero(data.batch[i].y_true, threshold))
              => NearOne(Appended(i))

\* C8 as amended: with threshold 0.5, identical ground truth and prediction
\* whose non-zero values are all 1 give the score 1.0.
C8_IdenticalBinaryScoresOne ==
    (last = "on_batch_end" /\ threshold = <<1, 2>>) =>
        \A i \in 1..Len(data.batch) :
            (Identical(data.batch[i]) /\ OneOrZero(data.batch[i].y_true))
              => EEq(Appended(i), E1)

\* identical binary masks holding a one and a zero were scored
C8_Witness ==
    /\ last = "on_batch_end"
    /\ threshold = <<1, 2>>
    /\ \E i \in 1..Len(data.batch) :
         /\ Identical(data.batch[i])
         /\ OneOrZero(data.batch[i].y_true)
         /\ \E j, k \in 1..Len(data.batch[i].y_true) :
              data.batch[i].y_true[j] = R1 /\ data.batch[i].y_true[k] = R0

\* C9 as stated: every score in the accumulator lies in [0, 1].
InUnitRange(x) == ELe(E0, x) /\ ELe(x, E1)

C9_ScoresInUnitRange == \A i \in 1..Len(dice) : InUnitRange(dice[i])

\* C9 as amended: every score in the accumulator that was computed from a
\* ground-truth mask with all values in [0, 1] lies in [0, 1].
C9_UnitTruthScoresInUnitRange ==
    /\ Len(since_unit) = Len(dice)
    /\ \A i \in 1..Len(dice) : since_unit[i] => InUnitRange(dice[i])

\* a score strictly between 0 and 1 from a ground truth with a value 1/2
C9_Witness ==
    /\ last = "on_batch_end"
    /\ Len(dice) = 1
    /\ since_unit[1]
    /\ \E j \in 1..Len(data.batch[1].y_true) :
         data.batch[1].y_true[j] = <<1, 2>>
    /\ ~ELe(dice[1], E0)
    /\ ~ELe(E1, dice[1])

\* C10: the accumulator is the concatenation, in call order, of the scores
\* of the on_batch_end calls since the latest on_epoch_begin (since
\* construction if none); on_epoch_end leaves it alone and writes the mean
\* of exactly those scores.
C10_AccumulatorIsCurrentEpoch ==
    /\ dice = since
    /\ (last = "on_epoch_end" /\ since # <<>>) =>
          /\ IsNumber(data.log[output_name])
          /\ EEq(EMulInt(data.log[output_name], Len(since)), ESum(since))

\* an epoch was closed after an earlier epoch's scores had been discarded
C10_Witness ==
    /\ restarted
    /\ last = "on_epoch_end"
    /\ Len(dice) >= 2

====
